---- MODULE Spec2Model ----
(***************************************************************************)
(* parser.py: the RSVP reader.  One foreground timeline (the Tk event      *)
(* loop: key bindings, the page buttons and the root.after timers) and the *)
(* daemon threads of prefetch_pages share the OrderedDict pages_cache.     *)
(*                                                                         *)
(* A word is modelled by its page number (its text and box play no part in *)
(* the control flow), a rendered image by who produced it.  Python's None  *)
(* is None below; word_index is 0-based as in the source, so the word at   *)
(* index i is words[i + 1].                                                *)
(***************************************************************************)
EXTENDS Integers, Sequences, FiniteSets, TLC

None == -1

\* Bounds of the model.
MaxTimers   == 3    \* distinct root.after handles that may be live at once
MaxThreads  == 1    \* prefetch threads alive at once
MaxCacheArg == 2    \* largest --cache-size tried (0 stands for an invalid one)
MaxPages    == 3    \* largest len(pdf.pages) of the files loaded from the command line
MaxPageArg  == 3    \* largest --start-page / --end-page tried

\* Program constants.
DefaultCacheSize == 8    \* args.cache_size = 8 when the argument is < 1
PrefetchN        == 2    \* prefetch_pages(start_page, n=2)

\* The documents tried: len(pdf.pages) and the page of every extracted word,
\* in reading order.  The second has a page without words (1) between two
\* pages with words, and a last page (3) without words.
Documents ==
  { [num_pages |-> 3, words |-> <<0, 0, 1, 2>>],
    [num_pages |-> 4, words |-> <<0, 2>>] }

VARIABLES
  boot,             \* main before the window: [phase, pdf, start_page, end_page, error],
                    \* pdf the number of words extract_words finds on each page
  num_pages,        \* len(pdf.pages)
  words,            \* words: the page of each word
  cache_size,       \* args.cache_size after validation
  started,          \* FALSE until main reaches root.mainloop()
  word_index,
  paused,
  word_id,          \* the handle display_next_word / goto_next_page recorded
  pending,          \* Tk's after-queue: the handles scheduled and not yet fired or cancelled
  current_page_no,
  current_rect,     \* the highlight drawn: [idx, page], NoRect when there is none
  label,            \* index of the word the label shows, None for ""
  pages_cache,      \* OrderedDict, oldest first: sequence of [page, img]
  threads,          \* live prefetch threads: sequence of [pno, stop, pc, cached]
  fg,               \* foreground handler waiting for to_image to return, or Idle
  last,             \* history: the handler that completed last, the word_index it started
                    \* at, and what its render_page did with the cache
  toggles,          \* history: pause_play calls in a row (1 or 2) and the state before the first
  gets              \* history: pages render_page was called on, while distinct and no prefetch ran

vars == << boot, num_pages, words, cache_size, started, word_index, paused, word_id,
           pending, current_page_no, current_rect, label, pages_cache, threads,
           fg, last, toggles, gets >>

Idle   == [op |-> "idle", arg |-> 0, page |-> None]
NoOp   == [op |-> "none", arg |-> 0, word_index |-> 0, render |-> "none"]
NoToggle == [n |-> 0, paused |-> FALSE, word_index |-> 0]
NoRect == [idx |-> None, page |-> None]
Void   == << None >>     \* gets once a page was requested twice or a prefetch started

NumWords == Len(words)
PageOf(idx) == words[idx + 1]

Min(a, b) == IF a < b THEN a ELSE b
Max(a, b) == IF a > b THEN a ELSE b

----------------------------------------------------------------------------
\* main, the page arguments, and load_pdf_index

\* raw_start < 1 becomes 1; start_idx = raw_start - 1
start_idx(raw_start) == Max(raw_start, 1) - 1
\* end_idx = -1 if raw_end < 1 else (raw_end - 1)
end_idx(raw_end) == IF raw_end < 1 THEN -1 ELSE raw_end - 1

\* for i in range(start_idx, end_idx + 1): one entry, the page, per word
RECURSIVE ExtractWords(_, _, _)
ExtractWords(pdf, i, e) ==
  IF i > e THEN << >>
  ELSE [k \in 1..pdf[i + 1] |-> i] \o ExtractWords(pdf, i + 1, e)

\* Mutant: the test start_idx > end_idx is missing.
load_pdf_index_NoOrderCheck(pdf, s_idx, e_idx) ==
  LET total_pages == Len(pdf)
      e == IF e_idx < 0 \/ e_idx >= total_pages THEN total_pages - 1 ELSE e_idx
      s == IF s_idx < 0 THEN 0 ELSE s_idx
  IN IF s >= total_pages THEN [error |-> "range", words |-> << >>]
     ELSE [error |-> "none", words |-> ExtractWords(pdf, s, e)]

\* load_pdf_index(path, start_idx, end_idx): the words, or the RuntimeError
load_pdf_index(pdf, s_idx, e_idx) ==
  LET total_pages == Len(pdf)
      e == IF e_idx < 0 \/ e_idx >= total_pages THEN total_pages - 1 ELSE e_idx
      s == IF s_idx < 0 THEN 0 ELSE s_idx
  IN IF s >= total_pages THEN [error |-> "range", words |-> << >>]
     ELSE IF s > e THEN [error |-> "order", words |-> << >>]
     ELSE [error |-> "none", words |-> ExtractWords(pdf, s, e)]

\* The foreground state a handler reads and writes, as one record.  pil is the
\* image to_image has returned to the handler (None: not rendered yet), await
\* the page whose rendering the handler is blocked on, full the exhaustion of
\* the model's handles.
St ==
  [ word_index |-> word_index, paused |-> paused, word_id |-> word_id,
    pending |-> pending, current_page_no |-> current_page_no,
    current_rect |-> current_rect, label |-> label,
    pages_cache |-> pages_cache, threads |-> threads,
    pil |-> "none", await |-> None, full |-> FALSE ]

----------------------------------------------------------------------------
\* pages_cache

CachePages(cache) == [i \in 1..Len(cache) |-> cache[i].page]
InCache(cache, pno) == \E i \in 1..Len(cache) : cache[i].page = pno
Without(cache, pno) == SelectSeq(cache, LAMBDA e : e.page # pno)
Entry(cache, pno) == cache[CHOOSE i \in 1..Len(cache) : cache[i].page = pno]

\* Mutant: popitem(last=True), the newest entry is evicted.
RECURSIVE Evict_Newest(_, _)
Evict_Newest(cache, cap) ==
  IF Len(cache) > cap
  THEN Evict_Newest(SubSeq(cache, 1, Len(cache) - 1), cap)
  ELSE cache

\* while len(pages_cache) > args.cache_size: pages_cache.popitem(last=False)
RECURSIVE Evict(_, _)
Evict(cache, cap) ==
  IF Len(cache) > cap THEN Evict(Tail(cache), cap) ELSE cache

\* Mutant: the insert without the eviction loop.
cache_put_NoEvict(cache, pno, pil, cap) ==
  IF InCache(cache, pno)
  THEN Append(Without(cache, pno), Entry(cache, pno))
  ELSE Append(cache, [page |-> pno, img |-> pil])

\* Mutant: a key already present gets the new image.
cache_put_Overwrite(cache, pno, pil, cap) ==
  IF InCache(cache, pno)
  THEN Append(Without(cache, pno), [page |-> pno, img |-> pil])
  ELSE Evict(Append(cache, [page |-> pno, img |-> pil]), cap)

\* cache_put(pno, pil), the whole of it under pages_lock
cache_put(cache, pno, pil, cap) ==
  IF InCache(cache, pno)
  THEN Append(Without(cache, pno), Entry(cache, pno))       \* move_to_end
  ELSE Evict(Append(cache, [page |-> pno, img |-> pil]), cap)

----------------------------------------------------------------------------
\* root.after / root.after_cancel

\* A handle is a name for a queued call; the number of a fired or cancelled
\* one is free again (every caller of root.after overwrites word_id with the
\* new handle or holds None, so no variable names a handle out of the queue).
FreeHandles(s) == (1..MaxTimers) \ s.pending
NewHandle(s) ==
  IF FreeHandles(s) = {} THEN 0
  ELSE CHOOSE h \in FreeHandles(s) : \A g \in FreeHandles(s) : h <= g

after(s, h) ==
  IF h = 0 THEN [s EXCEPT !.full = TRUE]
  ELSE [s EXCEPT !.pending = s.pending \cup {h}]

after_cancel(s, h) == [s EXCEPT !.pending = s.pending \ {h}]

----------------------------------------------------------------------------
\* The foreground functions.

render_page(s, page_no) ==
  IF page_no = None \/ page_no < 0 \/ page_no >= num_pages THEN s
  ELSE IF s.pil = "none" /\ ~InCache(s.pages_cache, page_no)
       THEN [s EXCEPT !.await = page_no]          \* pil is None: to_image runs
       ELSE [s EXCEPT
               !.pages_cache = IF s.pil = "none" THEN @   \* pages_cache.get hit
                               ELSE cache_put(@, page_no, s.pil, cache_size),
               !.pil = "none",
               !.current_page_no = page_no,
               !.current_rect = NoRect]

\* Mutant: the rectangle is drawn without rendering the word's page.
highlight_current_word_NoRender(s, idx) ==
  IF idx = None \/ idx < 0 \/ idx >= NumWords THEN s
  ELSE [s EXCEPT !.current_rect = [idx |-> idx, page |-> s.current_page_no]]

highlight_current_word(s, idx) ==
  IF idx = None \/ idx < 0 \/ idx >= NumWords THEN s
  ELSE LET s1 == IF s.current_page_no # PageOf(idx)
                 THEN render_page(s, PageOf(idx)) ELSE s
       IN [s1 EXCEPT !.current_rect = [idx |-> idx, page |-> s1.current_page_no]]

update_label_for_index(s) ==
  IF 0 <= s.word_index /\ s.word_index < NumWords
  THEN highlight_current_word([s EXCEPT !.label = s.word_index], s.word_index)
  ELSE [s EXCEPT !.label = None]

\* Mutant: the word is shown and counted, the next timer is not scheduled.
display_next_word_NoReschedule(s) ==
  IF s.paused THEN [s EXCEPT !.word_id = None]
  ELSE IF s.word_index < NumWords
  THEN LET i  == s.word_index
           s1 == [s EXCEPT !.label = i]
           s2 == IF s1.current_page_no # PageOf(i)
                 THEN render_page(s1, PageOf(i)) ELSE s1
       IN [s2 EXCEPT !.current_rect = [idx |-> i, page |-> s2.current_page_no],
                     !.word_index = i + 1,
                     !.word_id = None]
  ELSE [s EXCEPT !.word_id = None]

\* Mutant: word_index < len(words) - 1, the last word is never shown.
display_next_word_SkipsLast(s) ==
  IF s.paused THEN [s EXCEPT !.word_id = None]
  ELSE IF s.word_index < NumWords - 1
  THEN LET i  == s.word_index
           s1 == [s EXCEPT !.label = i]
           s2 == IF s1.current_page_no # PageOf(i)
                 THEN render_page(s1, PageOf(i)) ELSE s1
           s3 == [s2 EXCEPT !.current_rect = [idx |-> i, page |-> s2.current_page_no],
                            !.word_index = i + 1]
           h  == NewHandle(s3)
       IN [after(s3, h) EXCEPT !.word_id = h]
  ELSE [s EXCEPT !.word_id = None]

\* Mutant: paused is not tested, a late timer shows the next word.
display_next_word_NoPauseCheck(s) ==
  IF s.word_index < NumWords
  THEN LET i  == s.word_index
           s1 == [s EXCEPT !.label = i]
           s2 == IF s1.current_page_no # PageOf(i)
                 THEN render_page(s1, PageOf(i)) ELSE s1
           s3 == [s2 EXCEPT !.current_rect = [idx |-> i, page |-> s2.current_page_no],
                            !.word_index = i + 1]
           h  == NewHandle(s3)
       IN [after(s3, h) EXCEPT !.word_id = h]
  ELSE [s EXCEPT !.word_id = None]

display_next_word(s) ==
  IF s.paused THEN [s EXCEPT !.word_id = None]
  ELSE IF s.word_index < NumWords
  THEN LET i  == s.word_index
           s1 == [s EXCEPT !.label = i]
           s2 == IF s1.current_page_no # PageOf(i)
                 THEN render_page(s1, PageOf(i)) ELSE s1
           s3 == [s2 EXCEPT !.current_rect = [idx |-> i, page |-> s2.current_page_no],
                            !.word_index = i + 1]
           h  == NewHandle(s3)
       IN [after(s3, h) EXCEPT !.word_id = h]
  ELSE [s EXCEPT !.word_id = None]

\* Mutant: resuming does not call display_next_word at once but schedules it.
pause_play_ResumeLater(s) ==
  LET s1 == [s EXCEPT !.paused = ~s.paused] IN
  IF s1.paused
  THEN IF s1.word_id # None
       THEN [after_cancel(s1, s1.word_id) EXCEPT !.word_id = None]
       ELSE s1
  ELSE LET h == NewHandle(s1) IN [after(s1, h) EXCEPT !.word_id = h]

pause_play(s) ==
  LET s1 == [s EXCEPT !.paused = ~s.paused] IN
  IF s1.paused
  THEN IF s1.word_id # None
       THEN [after_cancel(s1, s1.word_id) EXCEPT !.word_id = None]
       ELSE s1
  ELSE display_next_word(s1)

\* Mutant: the test of paused is missing.
move_left_NoGuard(s) ==
  update_label_for_index([s EXCEPT !.word_index = Max(s.word_index - 1, 0)])

\* Mutant: word_index - 1 without max(0, .).
move_left_NoClamp(s) ==
  IF ~s.paused THEN s
  ELSE update_label_for_index([s EXCEPT !.word_index = s.word_index - 1])

move_left(s) ==
  IF ~s.paused THEN s
  ELSE update_label_for_index([s EXCEPT !.word_index = Max(s.word_index - 1, 0)])

\* Mutant: min(word_index + 1, len(words)), one past the last word.
move_right_PastEnd(s) ==
  IF ~s.paused THEN s
  ELSE update_label_for_index(
         [s EXCEPT !.word_index = Min(s.word_index + 1, NumWords)])

move_right(s) ==
  IF ~s.paused THEN s
  ELSE update_label_for_index(
         [s EXCEPT !.word_index = Min(s.word_index + 1, NumWords - 1)])

\* Mutant: the loop without its break, found is the last word of the page.
FirstOnPage_NoBreak(page) ==
  IF \E i \in 0..(NumWords - 1) : PageOf(i) = page
  THEN CHOOSE i \in 0..(NumWords - 1) :
         /\ PageOf(i) = page
         /\ \A j \in 0..(NumWords - 1) : PageOf(j) = page => j <= i
  ELSE None

\* for i, w in enumerate(words): if w.get("page") == next_page: found = i; break
FirstOnPage(page) ==
  IF \E i \in 0..(NumWords - 1) : PageOf(i) = page
  THEN CHOOSE i \in 0..(NumWords - 1) :
         /\ PageOf(i) = page
         /\ \A j \in 0..(NumWords - 1) : PageOf(j) = page => i <= j
  ELSE None

\* prefetch_pages(start_page): the thread walks
\* range(start_page + 1, min(start_page + 1 + n, len(pdf.pages)))
prefetch_pages(s, start_page) ==
  LET stop == Min(start_page + 1 + PrefetchN, num_pages) IN
  IF start_page + 1 < stop
  THEN [s EXCEPT !.threads =
          Append(@, [pno |-> start_page + 1, stop |-> stop, pc |-> "check",
                     \* history: the pages of the range cached at the call
                     cached |-> {p \in (start_page + 1)..(stop - 1) :
                                  InCache(s.pages_cache, p)}])]
  ELSE s                                   \* empty range: the thread ends at once

NextPage(s, step) ==
  IF s.current_page_no = None
  THEN IF step >= 0 THEN 0 ELSE Max(0, num_pages - 1)
  ELSE Max(0, Min(s.current_page_no + step, num_pages - 1))

\* Mutant: the pending timer is cancelled before the two early returns.
goto_next_page_CancelsFirst(s, step) ==
  LET next_page == NextPage(s, step)
      found == FirstOnPage(next_page)
      s1 == IF s.word_id # None
            THEN [after_cancel(s, s.word_id) EXCEPT !.word_id = None] ELSE s
  IN
  IF next_page = s.current_page_no THEN s1
  ELSE IF found = None THEN s1
  ELSE LET s2 == [s1 EXCEPT !.word_index = found]
           s3 == render_page(s2, next_page)
           s4 == update_label_for_index(s3)
           s5 == prefetch_pages(s4, next_page)
           h  == NewHandle(s5)
       IN IF ~s5.paused THEN [after(s5, h) EXCEPT !.word_id = h] ELSE s5

goto_next_page(s, step) ==
  LET next_page == NextPage(s, step)
      found == FirstOnPage(next_page)
  IN
  IF next_page = s.current_page_no THEN s
  ELSE IF found = None THEN s
  ELSE LET s1 == IF s.word_id # None THEN after_cancel(s, s.word_id) ELSE s
           s2 == [s1 EXCEPT !.word_index = found]
           s3 == render_page(s2, next_page)
           s4 == update_label_for_index(s3)
           s5 == prefetch_pages(s4, next_page)
           h  == NewHandle(s5)
       IN IF ~s5.paused THEN [after(s5, h) EXCEPT !.word_id = h] ELSE s5

\* main, lines 549-555: the first page, then the first timer or the first label
startup(s) ==
  LET s1 == IF NumWords > 0 THEN render_page(s, PageOf(s.word_index)) ELSE s IN
  IF ~s1.paused THEN after(s1, NewHandle(s1))     \* the handle is not kept
  ELSE update_label_for_index(s1)

----------------------------------------------------------------------------
\* The event loop.  A handler runs to completion on the foreground timeline;
\* the one place where it waits while the prefetch threads run is to_image
\* inside render_page (a handler calls render_page at most once).  Begin is
\* the handler up to that call, or the whole handler when no rendering is
\* needed; RenderReturn is the handler from the returned image on.

Run(op, arg, s) ==
  CASE op = "start"       -> startup(s)
    [] op = "timer"       -> display_next_word([s EXCEPT !.pending = @ \ {arg}])
    [] op = "pause_play"  -> pause_play(s)
    [] op = "move_left"   -> move_left(s)
    [] op = "move_right"  -> move_right(s)
    [] op = "goto"        -> goto_next_page(s, arg)

\* The handler stays within the model's handles and threads.
Fits(op, arg) ==
  LET r == Run(op, arg, [St EXCEPT !.pil = "fg"])
  IN ~r.full /\ Len(r.threads) <= MaxThreads

Commit(r, op, arg) ==
  /\ word_index' = r.word_index
  /\ paused' = r.paused
  /\ word_id' = r.word_id
  /\ pending' = r.pending
  /\ current_page_no' = r.current_page_no
  /\ current_rect' = r.current_rect
  /\ label' = r.label
  /\ pages_cache' = r.pages_cache
  /\ threads' = r.threads
  /\ fg' = Idle
  /\ started' = TRUE
  /\ last' = [op |-> op, arg |-> arg, word_index |-> word_index,
              render |-> IF fg = Idle THEN "none"
                         ELSE IF InCache(pages_cache, fg.page) THEN "dup"
                         ELSE "put"]
  /\ toggles' = IF op # "pause_play" THEN NoToggle
                ELSE IF toggles.n = 1 THEN [toggles EXCEPT !.n = 2]
                ELSE [n |-> 1, paused |-> paused, word_index |-> word_index]
  /\ gets' = IF gets = Void \/ Len(r.threads) > Len(threads) THEN Void
             ELSE IF r.current_page_no = current_page_no THEN gets
             ELSE IF \E i \in 1..Len(gets) : gets[i] = r.current_page_no THEN Void
             ELSE Append(gets, r.current_page_no)

Begin(op, arg) ==
  /\ fg = Idle
  /\ Fits(op, arg)
  /\ LET r == Run(op, arg, St) IN
     IF r.await # None
     THEN /\ fg' = [op |-> op, arg |-> arg, page |-> r.await]
          /\ UNCHANGED << started, word_index, paused, word_id, pending, current_page_no,
                          current_rect, label, pages_cache, threads, last, toggles, gets >>
     ELSE Commit(r, op, arg)

\* to_image returns to the waiting handler (ok), or raises and the handler
\* makes the blank image (~ok); the handler then runs to its end.
RenderReturn ==
  /\ fg # Idle
  /\ \E ok \in BOOLEAN :
       Commit(Run(fg.op, fg.arg, [St EXCEPT !.pil = IF ok THEN "fg" ELSE "blank"]),
              fg.op, fg.arg)
  /\ UNCHANGED << boot, num_pages, words, cache_size >>

Start ==
  /\ boot.phase = "loaded"
  /\ ~started
  /\ fg = Idle
  /\ Begin("start", 0)
  /\ UNCHANGED << boot, num_pages, words, cache_size >>

TimerFire ==
  /\ started
  /\ \E h \in pending : Begin("timer", h)
  /\ UNCHANGED << boot, num_pages, words, cache_size >>

PausePlay ==
  /\ started
  /\ Begin("pause_play", 0)
  /\ UNCHANGED << boot, num_pages, words, cache_size >>

MoveLeft ==
  /\ started
  /\ Begin("move_left", 0)
  /\ UNCHANGED << boot, num_pages, words, cache_size >>

MoveRight ==
  /\ started
  /\ Begin("move_right", 0)
  /\ UNCHANGED << boot, num_pages, words, cache_size >>

GotoNextPage ==
  /\ started
  /\ \E step \in {-1, 1} : Begin("goto", step)
  /\ UNCHANGED << boot, num_pages, words, cache_size >>

----------------------------------------------------------------------------
\* prefetch_pages._worker, one thread: the membership test under pages_lock,
\* then to_image outside the lock and cache_put.

ThreadNext(i) ==
  LET t == threads[i] IN
  IF t.pno + 1 < t.stop
  THEN [threads EXCEPT ![i] = [t EXCEPT !.pno = t.pno + 1, !.pc = "check",
                                        !.cached = @ \ {t.pno}]]
  ELSE [j \in 1..(Len(threads) - 1) |-> IF j < i THEN threads[j] ELSE threads[j + 1]]

\* Mutant: the thread renders every page of its range, cached or not.
WorkerCheck_NoTest ==
  /\ \E i \in 1..Len(threads) :
       /\ threads[i].pc = "check"
       /\ threads' = [threads EXCEPT ![i].pc = "render"]
  /\ UNCHANGED << boot, num_pages, words, cache_size, started, word_index, paused,
                  word_id, pending, current_page_no, current_rect, label,
                  pages_cache, fg, last, toggles, gets >>

WorkerCheck ==
  /\ \E i \in 1..Len(threads) :
       /\ threads[i].pc = "check"
       /\ IF InCache(pages_cache, threads[i].pno)
          THEN threads' = ThreadNext(i)                         \* continue
          ELSE threads' = [threads EXCEPT ![i].pc = "render"]
  /\ UNCHANGED << boot, num_pages, words, cache_size, started, word_index, paused,
                  word_id, pending, current_page_no, current_rect, label,
                  pages_cache, fg, last, toggles, gets >>

\* Mutant: the thread also shows the page it has rendered.
WorkerRender_Shows ==
  /\ \E i \in 1..Len(threads) :
       /\ threads[i].pc = "render"
       /\ pages_cache' = cache_put(pages_cache, threads[i].pno, "bg", cache_size)
       /\ current_page_no' = threads[i].pno
       /\ current_rect' = NoRect
       /\ threads' = ThreadNext(i)
  /\ UNCHANGED << boot, num_pages, words, cache_size, started, word_index, paused,
                  word_id, pending, label, fg, last, toggles, gets >>

WorkerRender ==
  /\ \E i \in 1..Len(threads) :
       /\ threads[i].pc = "render"
       /\ \E ok \in BOOLEAN :
            pages_cache' = IF ok
                           THEN cache_put(pages_cache, threads[i].pno, "bg", cache_size)
                           ELSE pages_cache                    \* except Exception: pass
       /\ threads' = ThreadNext(i)
  /\ UNCHANGED << boot, num_pages, words, cache_size, started, word_index, paused,
                  word_id, pending, current_page_no, current_rect, label,
                  fg, last, toggles, gets >>

----------------------------------------------------------------------------

\* main up to line 548: the document is loaded, the cache is empty, nothing is
\* rendered or scheduled yet.
Init ==
  /\ \E d \in Documents :
       /\ num_pages = d.num_pages
       /\ words = d.words
       /\ boot = [phase |-> "loaded",
                  pdf |-> [p \in 1..d.num_pages |->
                            Cardinality({i \in 1..Len(d.words) : d.words[i] = p - 1})],
                  start_page |-> 1, end_page |-> -1, error |-> "none"]
  /\ \E a \in 0..MaxCacheArg :
       cache_size = IF a < 1 THEN DefaultCacheSize ELSE a
  /\ started = FALSE
  /\ word_index = 0
  /\ paused \in BOOLEAN                   \* bool(args.start_paused)
  /\ word_id = None
  /\ pending = {}
  /\ current_page_no = None
  /\ current_rect = NoRect
  /\ label = None
  /\ pages_cache = << >>
  /\ threads = << >>
  /\ fg = Idle
  /\ last = NoOp
  /\ toggles = NoToggle
  /\ gets = << >>

Next ==
  \/ Start
  \/ TimerFire
  \/ PausePlay
  \/ MoveLeft
  \/ MoveRight
  \/ GotoNextPage
  \/ RenderReturn
  \/ WorkerCheck
  \/ WorkerRender

Spec == Init /\ [][Next]_vars

\* The reader left alone: no key is pressed and no button clicked.  The event
\* loop runs every timer that is due.
AutoNext == Start \/ TimerFire \/ RenderReturn
AutoSpec == Init /\ [][AutoNext]_vars /\ WF_vars(AutoNext)

\* main from the command line on: the file and the page arguments are any
\* within the bounds, load_pdf_index runs, and the reader is left alone.
LoadInit ==
  /\ \E n \in 0..MaxPages : \E pdf \in [1..n -> 0..1] :
     \E s \in 0..MaxPageArg : \E e \in -1..MaxPageArg :
       /\ num_pages = n
       /\ boot = [phase |-> "parse", pdf |-> pdf,
                  start_page |-> s, end_page |-> e, error |-> "none"]
  /\ words = << >>
  /\ \E a \in 0..MaxCacheArg :
       cache_size = IF a < 1 THEN DefaultCacheSize ELSE a
  /\ started = FALSE
  /\ word_index = 0
  /\ paused \in BOOLEAN
  /\ word_id = None
  /\ pending = {}
  /\ current_page_no = None
  /\ current_rect = NoRect
  /\ label = None
  /\ pages_cache = << >>
  /\ threads = << >>
  /\ fg = Idle
  /\ last = NoOp
  /\ toggles = NoToggle
  /\ gets = << >>

\* lines 146-150 and 201-203: the words are loaded, or the process exits on a
\* RuntimeError of load_pdf_index or on an empty list of words.
LoadPdf ==
  /\ boot.phase = "parse"
  /\ LET r == load_pdf_index(boot.pdf, start_idx(boot.start_page),
                             end_idx(boot.end_page))
     IN /\ words' = r.words
        /\ boot' = [boot EXCEPT
                      !.phase = IF r.error = "none" /\ r.words # << >>
                                THEN "loaded" ELSE "exit",
                      !.error = IF r.error # "none" THEN r.error
                                ELSE IF r.words = << >> THEN "empty" ELSE "none"]
  /\ UNCHANGED << num_pages, cache_size, started, word_index, paused, word_id,
                  pending, current_page_no, current_rect, label, pages_cache,
                  threads, fg, last, toggles, gets >>

LoadNext == LoadPdf \/ Start \/ TimerFire \/ RenderReturn
LoadSpec == LoadInit /\ [][LoadNext]_vars

\* A step that completes handler op(arg): the whole handler at once, or its
\* second half when it had to wait for a rendering.
Completes(op, arg) ==
  /\ fg' = Idle
  /\ last'.op = op /\ last'.arg = arg
  /\ \/ fg = Idle /\ Begin(op, arg)
     \/ fg # Idle /\ fg.op = op /\ fg.arg = arg /\ RenderReturn

----------------------------------------------------------------------------
\* The scheduler: timers.

Playing == ~paused
Between == started /\ fg = Idle        \* the event loop is between two handlers

\* C1: at most one advancement timer is pending at any time, whatever the
\* sequence of start, pause_play, move, goto and timer firings.
C1_AtMostOneTimer == Cardinality(pending) <= 1

C3_Terminates ==
  /\ [](word_index <= NumWords)
  /\ Playing => <>[](/\ word_index = NumWords /\ label = NumWords - 1
                     /\ pending = {} /\ word_id = None /\ fg = Idle)

C3_Witness ==
  /\ Between /\ Playing /\ last.op = "timer"
  /\ word_index = NumWords /\ pending = {} /\ word_id = None

\* C4 as stated: after two pause_play calls in a row, paused and word_index
\* are what they were before the first.
C4_TwiceRestores ==
  (toggles.n = 2 /\ fg = Idle) =>
    /\ paused = toggles.paused
    /\ word_index = toggles.word_index

\* C4 amended: after two pause_play calls in a row paused is what it was, and
\* the resuming call has shown the word at the word_index held before the
\* first call and moved word_index past it, by exactly one; at
\* word_index = len(words) nothing is shown and word_index stays.
C4_TwiceAdvancesOne ==
  (toggles.n = 2 /\ fg = Idle) =>
    /\ paused = toggles.paused
    /\ IF toggles.word_index < NumWords
       THEN word_index = toggles.word_index + 1 /\ label = toggles.word_index
       ELSE word_index = toggles.word_index

C4_Witness ==
  /\ toggles.n = 2 /\ fg = Idle /\ Playing
  /\ toggles.word_index > 0 /\ word_index = toggles.word_index + 1

----------------------------------------------------------------------------
\* The scheduler: step and page jump.

Clamp(x, lo, hi) == IF x < lo THEN lo ELSE IF x > hi THEN hi ELSE x
Direction == IF last.op = "move_left" THEN -1 ELSE 1
IsMove(op) == op \in {"move_left", "move_right"}

\* C5: a step taken while Paused, from any word_index in 0..len(words), leaves
\* word_index = clamp(word_index + d, 0, len(words) - 1).
C5_StepClamps ==
  (IsMove(last.op) /\ paused /\ fg = Idle) =>
    /\ word_index = Clamp(last.word_index + Direction, 0, NumWords - 1)
    /\ word_index \in 0..(NumWords - 1)

C5_Witness ==
  /\ last.op = "move_right" /\ paused /\ fg = Idle
  /\ last.word_index = NumWords /\ word_index = NumWords - 1

\* C6: a step while Playing changes neither word_index nor paused nor the
\* timers; a step while Paused changes neither paused nor the timers.
C6_StepFrame ==
  [][\A op \in {"move_left", "move_right"} :
       Completes(op, 0) =>
         /\ paused' = paused /\ pending' = pending /\ word_id' = word_id
         /\ Playing => word_index' = word_index]_vars

C6_Witness ==
  /\ IsMove(last.op) /\ fg = Idle /\ Playing
  /\ pending # {} /\ word_index < NumWords

\* C7: a page jump whose target has no word, or is the current page, changes
\* neither word_index nor paused nor the timers.
C7_JumpNoOp ==
  [][\A step \in {-1, 1} :
       (/\ Completes("goto", step)
        /\ \/ NextPage(St, step) = current_page_no
           \/ \A i \in 0..(NumWords - 1) : PageOf(i) # NextPage(St, step))
       => /\ word_index' = word_index /\ paused' = paused
          /\ pending' = pending /\ word_id' = word_id]_vars

\* The jump from page 0 to page 1 of the document whose page 1 has no word.
C7_Witness ==
  /\ last.op = "goto" /\ last.arg = 1 /\ fg = Idle
  /\ num_pages = 4 /\ current_page_no = 0
  /\ Playing /\ word_id \in pending

\* C8: a page jump to another page that has a word sets word_index to the
\* smallest index of a word on that page and leaves paused as it was.
C8_JumpToFirst ==
  [][\A step \in {-1, 1} :
       LET target == NextPage(St, step) IN
       (/\ Completes("goto", step)
        /\ target # current_page_no
        /\ \E i \in 0..(NumWords - 1) : PageOf(i) = target)
       => /\ word_index' \in 0..(NumWords - 1)
          /\ PageOf(word_index') = target
          /\ \A j \in 0..(word_index' - 1) : PageOf(j) # target
          /\ paused' = paused]_vars

C8_Witness ==
  /\ last.op = "goto" /\ last.arg = -1 /\ fg = Idle
  /\ current_page_no = 0 /\ word_index = 0 /\ last.word_index > 1

----------------------------------------------------------------------------
\* The page cache.

\* C9: the cache never holds more than cache_size entries, and cache_size >= 1.
C9_CacheBounded == cache_size >= 1 /\ Len(pages_cache) <= cache_size

C9_Witness ==
  /\ Len(pages_cache) = cache_size /\ cache_size < num_pages
  /\ fg # Idle
  /\ \E i \in 1..Len(threads) : threads[i].pc = "render"

LastN(seq, n) == SubSeq(seq, Len(seq) - n + 1, Len(seq))

\* C10: after render_page has fetched only distinct pages (and no prefetch
\* ran), the cache holds the last cache_size of them, oldest first: all of
\* them while they fit, exactly cache_size once they do not.
C10_KeepsMostRecent ==
  (gets # Void /\ fg = Idle) =>
    CachePages(pages_cache) =
      IF Len(gets) <= cache_size THEN gets ELSE LastN(gets, cache_size)

\* Capacity 2: pages 0 and 1 were held together, and fetching page 2 has
\* evicted page 0.
C10_Witness ==
  /\ cache_size = 2 /\ gets = <<0, 1, 2>> /\ fg = Idle
  /\ CachePages(pages_cache) = <<1, 2>>

\* C11: a render_page that finds its page cached makes it the most recently
\* used one: with cache_size >= 2, whatever page is inserted next, the page
\* just fetched is not the one evicted.
C11_HitProtects ==
  [][(/\ fg = Idle /\ fg' = Idle                    \* a handler, without to_image,
      /\ current_page_no' # current_page_no         \* has fetched another page
      /\ cache_size >= 2)
     => \A q \in 0..(num_pages - 1) :
          ~InCache(pages_cache', q) =>
            InCache(cache_put(pages_cache', q, "fg", cache_size),
                    current_page_no')]_vars

\* C12: a rendering that failed inside render_page is not cached: the blank
\* image made in its place is never an entry of the cache, so the page is
\* absent and a later render_page renders it again.
C12_FailureNotCached ==
  \A i \in 1..Len(pages_cache) : pages_cache[i].img # "blank"

----------------------------------------------------------------------------
\* Prefetch and render_page.

\* Renderings of page p under way: a prefetch thread between its membership
\* test and its cache_put, the foreground inside to_image.
InFlight(p) ==
  Cardinality({i \in 1..Len(threads) : threads[i].pc = "render" /\ threads[i].pno = p})
  + (IF fg # Idle /\ fg.page = p THEN 1 ELSE 0)

\* C13 as stated: a page that was in the cache when prefetch_pages was called
\* on a range covering it is not rendered again, by the thread or by a
\* render_page that follows.
C13_CachedNotRendered ==
  \A i \in 1..Len(threads) :
    /\ threads[i].pc = "render" => threads[i].pno \notin threads[i].cached
    /\ fg # Idle => fg.page \notin threads[i].cached

\* C13 amended: while page p is in the cache no rendering of p is started,
\* neither by a prefetch thread whose range covers p nor by render_page(p);
\* a page the cache has evicted in between is rendered again.
C13_NoRenderWhileCached ==
  [][\A p \in 0..(num_pages - 1) :
       InCache(pages_cache, p) => InFlight(p)' <= InFlight(p)]_vars

\* A thread is about to test a page that was cached when it was started and
\* still is, and render_page has just fetched that page from the cache.
C13_Witness ==
  /\ fg = Idle /\ last.op = "move_right" /\ last.render = "none"
  /\ \E i \in 1..Len(threads) :
       /\ threads[i].pc = "check"
       /\ threads[i].pno \in threads[i].cached
       /\ InCache(pages_cache, threads[i].pno)
       /\ current_page_no = threads[i].pno

\* C14: no page is being rendered on two timelines at once.
C14_NoDuplicateWork ==
  \A p \in 0..(num_pages - 1) : InFlight(p) <= 1

----------------------------------------------------------------------------
\* Loading.

\* C15: with 1 <= end_page < start_page on the command line, whatever the
\* number of pages, the words are never loaded: the process exits on a
\* RuntimeError of load_pdf_index, and nothing is rendered, shown or scheduled.
C15_BadRangeRejected ==
  (1 <= boot.end_page /\ boot.end_page < boot.start_page) =>
    /\ boot.phase # "loaded"
    /\ boot.phase = "exit" => boot.error \in {"range", "order"}
    /\ ~started /\ fg = Idle /\ pages_cache = << >>
    /\ current_page_no = None /\ label = None /\ current_rect = NoRect
    /\ pending = {}

C15_Witness ==
  /\ boot.phase = "exit" /\ boot.error = "order"
  /\ boot.start_page = 2 /\ boot.end_page = 1 /\ num_pages = MaxPages

----------------------------------------------------------------------------
\* Late timers, duplicate inserts, the frame of the threads.

\* C16: display_next_word called by a timer while paused changes neither
\* word_index nor what is shown, and schedules no timer.
C16_PausedTimerIgnored ==
  [][\A h \in pending :
       (Completes("timer", h) /\ paused)
       => /\ word_index' = word_index /\ paused' = paused
          /\ label' = label /\ current_rect' = current_rect
          /\ current_page_no' = current_page_no
          /\ pages_cache' = pages_cache
          /\ pending' = pending \ {h}]_vars

C16_Witness ==
  /\ last.op = "timer" /\ paused /\ fg = Idle
  /\ word_index = last.word_index /\ pending = {}

\* The step is the cache_put of a page that is already in the cache: by
\* render_page when to_image returns, or by a prefetch thread.
DuplicateInsert ==
  \/ fg # Idle /\ fg' = Idle /\ InCache(pages_cache, fg.page)
  \/ /\ fg' = fg
     /\ \E i \in 1..Len(threads) :
          /\ threads[i].pc = "render"
          /\ InCache(pages_cache, threads[i].pno)
          /\ threads' = ThreadNext(i)

Entries(cache) == {cache[i] : i \in 1..Len(cache)}

\* C17: when a page rendered twice is inserted the second time, the cache
\* keeps its entries: one entry for the page, with the image inserted first,
\* and no entry is evicted.
C17_SecondInsertNoOp ==
  [][DuplicateInsert =>
       /\ Entries(pages_cache') = Entries(pages_cache)
       /\ Len(pages_cache') = Len(pages_cache)
       /\ \A i, j \in 1..Len(pages_cache') :
            pages_cache'[i].page = pages_cache'[j].page => i = j]_vars

\* render_page has inserted second: the image kept is the thread's.
C17_Witness ==
  /\ fg = Idle /\ last.render = "dup"
  /\ InCache(pages_cache, current_page_no)
  /\ Entry(pages_cache, current_page_no).img = "bg"

\* The step is one of a prefetch thread: a thread turns to rendering, moves
\* to its next page or ends.
WorkerStep ==
  \E i \in 1..Len(threads) :
    \/ threads' = [threads EXCEPT ![i].pc = "render"] /\ threads[i].pc = "check"
    \/ threads' = ThreadNext(i)

\* C18: a step of a prefetch thread changes nothing but pages_cache (and the
\* thread's own position).
C18_WorkerFrame ==
  [][WorkerStep =>
       UNCHANGED << word_index, paused, word_id, pending, current_page_no,
                    current_rect, label, fg >>]_vars

\* A thread has inserted a page while a word is highlighted and a timer pending.
C18_Witness ==
  /\ \E i \in 1..Len(pages_cache) : pages_cache[i].img = "bg"
  /\ pending # {} /\ current_rect # NoRect /\ word_index > 0

----------------------------------------------------------------------------
\* Invariants of the playback state.

\* C19: in every reachable state word_index is in 0..len(words).
C19_IndexInRange == word_index \in 0..NumWords

C19_Witness ==
  /\ fg = Idle /\ paused /\ last.op = "move_left"
  /\ last.word_index = 0 /\ word_index = 0

\* C20: a highlight rectangle on the canvas was drawn for a word of the page
\* shown: the page rendered when it was mapped, and the page shown now, is
\* the word's page.
C20_RectOnWordPage ==
  current_rect # NoRect =>
    /\ current_rect.page = PageOf(current_rect.idx)
    /\ current_page_no = current_rect.page

\* The highlight follows a step onto another page.
C20_Witness ==
  /\ fg = Idle /\ IsMove(last.op) /\ current_rect # NoRect
  /\ last.word_index < NumWords
  /\ PageOf(last.word_index) # PageOf(current_rect.idx)

----------------------------------------------------------------------------
\* Steps after playing, and the Next Page button.

\* C21: a step taken while paused moves the word displayed by one: with word
\* k on the label, move_right shows word k + 1 (k < len(words) - 1) and
\* move_left shows word k - 1 (k > 0).
C21_StepMovesDisplayByOne ==
  [][\A op \in {"move_left", "move_right"} :
       (Completes(op, 0) /\ paused /\ label # None)
       => /\ (op = "move_right" /\ label < NumWords - 1) => label' = label + 1
          /\ (op = "move_left" /\ label > 0) => label' = label - 1]_vars

\* The Next Page button alone: the reader is started, only Next Page is
\* clicked, and the event loop and the prefetch threads run what is due.
ClickNextPage ==
  /\ started
  /\ Begin("goto", 1)
  /\ UNCHANGED << boot, num_pages, words, cache_size >>

JumpNext ==
  \/ Start
  \/ TimerFire
  \/ ClickNextPage
  \/ RenderReturn
  \/ WorkerCheck
  \/ WorkerRender

JumpSpec ==
  /\ Init /\ [][JumpNext]_vars
  /\ WF_vars(Start) /\ WF_vars(TimerFire) /\ WF_vars(ClickNextPage)
  /\ WF_vars(RenderReturn) /\ WF_vars(WorkerCheck) /\ WF_vars(WorkerRender)

\* C22: clicking Next Page again and again eventually shows the last page
\* that has words, also when a page in between has none.
C22_ReachesLastWordPage ==
  <>(fg = Idle /\ current_page_no = PageOf(NumWords - 1))

====
